---- MODULE Spec2Model ----
(***************************************************************************)
(* The collaboration hub of scrible-it-together: the WebSocket server      *)
(* (createWebSocketServer), the MessageHandler, the ConnectionManager and  *)
(* the YjsDocumentManager, over a transactional store (Prisma).            *)
(*                                                                         *)
(* Node runs every handler on one thread; a handler runs without           *)
(* interruption up to its next `await` on the store, and the handlers of   *)
(* different frames (of the same socket too: ws.on('message') does not     *)
(* wait for the previous handler) interleave at those awaits.  Every       *)
(* action below is one such uninterrupted piece: the store operation that  *)
(* has just resolved, followed by the synchronous code up to the next      *)
(* await.                                                                  *)
(***************************************************************************)
EXTENDS Naturals, Integers, Sequences, FiniteSets, Bags, TLC

(* ---------------------------- bounds ---------------------------------- *)
MaxEvents == 4        \* inbound frames, socket closes and timer firings of a run
MaxRejoinEvents == 5  \* the same, in the runs of SpecRejoin
MaxTasks  == 2        \* handlers suspended at an await at the same time
MaxFaultEvents == 3   \* external events of a run of SpecFaults
OutboundQueue == 2    \* frames a session may hold undelivered (256), scaled down
MaxIdleEvents == 3    \* external events of a run of SpecIdle
MaxMissed == 4        \* firings of a pingInterval that are counted
MaxSockets == 12      \* WebSockets a ScribbleWebSocket creates in a run
MaxOpens == 2         \* of which this many open
MaxWire == 2          \* frames sent on one socket

Clients == {"c1", "c2"}          \* sockets, named by their server-side clientId
Rooms   == {"r1", "r2"}
Deltas  == {"AAEC"}              \* base64 payloads of inbound `update` frames
BadDeltas == {"////"}            \* payloads that are no Yjs update

(* ------------------------ program constants --------------------------- *)
KeepSnapshots == 10              \* findMany({ skip: 10 })
pingIntervalMs == 30000          \* setInterval(..., 30000) of pingInterval
maxReconnectAttempts == 10       \* ScribbleWebSocket.maxReconnectAttempts
reconnectDelay == 1000           \* ScribbleWebSocket.reconnectDelay

NoRoom == "none"

(* Buffer.from(delta, 'base64'): the bytes the Document receives. *)
Base64Decode(s) ==
  CASE s = "AAEC" -> <<0, 1, 2>>
    [] s = "AA==" -> <<0>>
    [] s = "////" -> <<255, 255, 255>>
    [] OTHER      -> <<>>

(* Y.applyUpdate(doc, update) throws on bytes that decode to no update. *)
Malformed(update) == update = <<255, 255, 255>>

(* The user a socket presents in its `connect` frame. *)
UserOf(c) == [id |-> IF c = "c1" THEN "u1" ELSE "u2"]

VARIABLES
  ws,            \* ws[c]: readyState of the socket of client c
  connections,   \* ConnectionManager.connections: clientId -> connection
  roomClients,   \* ConnectionManager.roomClients: roomId -> set of clientIds
  documents,     \* YjsDocumentManager.documents: roomId -> Document
  saveTimers,    \* the interval timers that run, each with the Document it saves
  docGen,        \* docGen[r]: number of Documents installed for room r so far
  dbRooms,       \* store: rooms table, roomId -> row
  dbParticipants,\* store: roomParticipant rows, in insertion order
  dbSnapshots,   \* store: roomSnapshot rows per room, in insertion order
  snapSeq,       \* store: number of roomSnapshot ids handed out
  tasks,         \* handlers suspended at an await
  outbox,        \* outbox[c]: the frames ws.send() has put on c's socket
  sent,          \* sent[c]: the data frames received from c while it was attached
  events,        \* number of external events so far: frames, closes, timer firings
  leaves,        \* leaves[c]: number of `leave` frames received from c while Active
  dropped,       \* number of frames other than `connect` received from Pending sessions
  accepted,      \* accepted[r]: the updates received for room r from Active sessions
  missed,        \* missed[c]: firings of c's pingInterval since the last frame from c
  sockets,       \* browser: readyState of every WebSocket created, in creation order
  clientWs,      \* ScribbleWebSocket.ws: index in `sockets`, 0 for null
  reconnectAttempts, \* ScribbleWebSocket.reconnectAttempts
  heartbeatInterval, \* ScribbleWebSocket.heartbeatInterval: a running interval, 0 for null
  intervals,     \* browser: the heartbeat intervals that run
  timeouts,      \* browser: delays of the reconnect timeouts that are pending
  wire,          \* wire[i]: the frames sent on socket i
  disconnected   \* disconnect() has been called

vars == <<ws, connections, roomClients, documents, saveTimers, docGen, dbRooms,
          dbParticipants, dbSnapshots, snapSeq, tasks, outbox, sent, events,
          leaves, dropped, accepted, missed, sockets, clientWs,
          reconnectAttempts, heartbeatInterval, intervals, timeouts, wire,
          disconnected>>

registry == <<connections, roomClients>>
cache    == <<documents, saveTimers, docGen>>
store    == <<dbRooms, dbParticipants, dbSnapshots, snapSeq>>
history  == <<sent, events, leaves, dropped, accepted>>
browser  == <<sockets, clientWs, reconnectAttempts, heartbeatInterval,
              intervals, timeouts, wire, disconnected>>

EmptyMap == [x \in {} |-> {}]

(* ------------------------------ frames -------------------------------- *)
(* Outbound frames; every frame carries every field so that frames compare. *)
Frame(type, from, body, state, participants) ==
  [type |-> type, from |-> from, body |-> body, state |-> state,
   participants |-> participants]

UpdateBroadcast(c, delta) == Frame("update", c, delta, {}, {})
(* The clientId field a sender writes into its own `presence` frame: any   *)
(* string, here the id of another client.                                  *)
SuppliedClientId(p) == "c2"
PresenceBroadcast_supplied(c, p) == Frame("presence", SuppliedClientId(p), p, {}, {})
PresenceBroadcast(c, p)   == Frame("presence", c, p, {}, {})
ChatBroadcast_noSender(c, m) == Frame("chat", "", m, {}, {})
ChatBroadcast(c, m)       == Frame("chat", c, m, {}, {})
JoinBroadcast(c, r)       == Frame("join", c, r, {}, {})
LeaveBroadcast(c)         == Frame("leave", c, "", {}, {})
SyncResponse(st, ps)      == Frame("sync-response", "", "", st, ps)
HeartbeatEcho             == Frame("heartbeat", "", "", {}, {})
ErrorMessage(code)        == Frame("error", "", code, {}, {})

(* Inbound data frames as recorded in sent[c]. *)
Inbound(type, body) == [type |-> type, body |-> body]

(* ------------------------ ConnectionManager --------------------------- *)
getRoomId(c) ==
  IF c \in DOMAIN connections THEN connections[c].roomId ELSE NoRoom

getRoomClientCount(r) ==
  IF r \in DOMAIN roomClients THEN Cardinality(roomClients[r]) ELSE 0

isRoomEmpty(r) == getRoomClientCount(r) = 0

(* connections.set(clientId, ...) *)
addConnection_connections(c, r) ==
  [x \in DOMAIN connections \cup {c} |->
     IF x = c THEN [roomId |-> r, user |-> UserOf(c)] ELSE connections[x]]

(* roomClients.get(roomId).add(clientId), creating the set when absent *)
addConnection_roomClients(c, r) ==
  [x \in DOMAIN roomClients \cup {r} |->
     IF x = r
       THEN (IF r \in DOMAIN roomClients THEN roomClients[r] ELSE {}) \cup {c}
       ELSE roomClients[x]]

(* connections.delete(clientId) *)
removeConnection_connections(c) ==
  [x \in DOMAIN connections \ {c} |-> connections[x]]

(* roomSet.delete(clientId); the room's entry is deleted when its set empties *)
removeConnection_roomClients(c) ==
  LET r == connections[c].roomId IN
  IF r \notin DOMAIN roomClients THEN roomClients
  ELSE LET rest == roomClients[r] \ {c} IN
       IF rest = {}
         THEN [x \in DOMAIN roomClients \ {r} |-> roomClients[x]]
         ELSE [roomClients EXCEPT ![r] = rest]

getRoomParticipants(r) ==
  IF r \in DOMAIN roomClients
    THEN {c \in roomClients[r] : c \in DOMAIN connections}
    ELSE {}

(* A send queue that puts the newest frame first. *)
SocketSend_front(ob, c, frame) == [ob EXCEPT ![c] = <<frame>> \o @]

(* ws.send(messageStr) on one socket *)
SocketSend(ob, c, frame) == [ob EXCEPT ![c] = Append(@, frame)]

(* broadcastToRoom without `if (clientId === excludeClientId) continue`. *)
BroadcastTargets_noExclude(r, exclude) ==
  IF r \in DOMAIN roomClients
    THEN {c \in roomClients[r] : c \in DOMAIN connections /\ ws[c] = "OPEN"}
    ELSE {}

(* The clients broadcastToRoom sends to. *)
BroadcastTargets(r, exclude) ==
  IF r \in DOMAIN roomClients
    THEN {c \in roomClients[r] :
            c # exclude /\ c \in DOMAIN connections /\ ws[c] = "OPEN"}
    ELSE {}

broadcastToRoom(ob, r, frame, exclude) ==
  [c \in Clients |->
     IF c \in BroadcastTargets(r, exclude) THEN SocketSend(ob, c, frame)[c] ELSE ob[c]]

(* sendToClient with a socket of its own, without the look-up in          *)
(* `connections`.                                                          *)
sendToClient_noLookup(ob, c, frame) ==
  IF ws[c] = "OPEN" THEN SocketSend(ob, c, frame) ELSE ob

sendToClient(ob, c, frame) ==
  IF c \in DOMAIN connections /\ ws[c] = "OPEN"
    THEN SocketSend(ob, c, frame)
    ELSE ob

(* ------------------------- YjsDocumentManager -------------------------- *)
(* A Document is the set of updates it has absorbed (the CRDT merge is     *)
(* commutative, associative and idempotent).                               *)
applyUpdate(r, update) ==
  IF r \in DOMAIN documents
    THEN [documents EXCEPT ![r] = @ \cup {update}]
    ELSE documents

(* The interval timers that run for room r. *)
TimersOf(r) == {h \in saveTimers : h.room = r}

(* setupSnapshotSaving without the clearInterval of the timer in place. *)
setupSnapshotSaving_noClear(r, g) ==
  saveTimers \cup {[room |-> r, doc |-> g]}

(* setupSnapshotSaving(roomId, doc): the timer in place for the room is    *)
(* cleared and a timer that saves doc, the g-th Document of the room, is   *)
(* started.                                                                *)
setupSnapshotSaving(r, g) ==
  (saveTimers \ TimersOf(r)) \cup {[room |-> r, doc |-> g]}

(* ------------------------------ store ---------------------------------- *)
Max(S) == CHOOSE x \in S : \A y \in S : y <= x

Versions(r) == {dbSnapshots[r][i].version : i \in 1..Len(dbSnapshots[r])}

(* findFirst({ where: { roomId }, orderBy: { version: 'desc' } }) *)
NewestRows(r) ==
  {i \in 1..Len(dbSnapshots[r]) :
     dbSnapshots[r][i].version = Max(Versions(r))}

(* new Date(): the external events so far, this one included. *)
Now == events + 1

(* roomParticipant.updateMany({ where: {clientId}, data: {leftAt} }),      *)
(* without the `leftAt: null` of the filter.                               *)
updateMany_unfiltered(rows, c, at) ==
  [i \in 1..Len(rows) |->
     IF rows[i].clientId = c
       THEN [rows[i] EXCEPT !.open = FALSE, !.leftAt = at]
       ELSE rows[i]]

(* roomParticipant.updateMany({ where: {clientId, leftAt: null},           *)
(*                              data: {leftAt} })                          *)
updateMany(rows, c, at) ==
  [i \in 1..Len(rows) |->
     IF rows[i].clientId = c /\ rows[i].open
       THEN [rows[i] EXCEPT !.open = FALSE, !.leftAt = at]
       ELSE rows[i]]

(* ------------------------------ tasks ---------------------------------- *)
(* `tasks` is the bag of the handlers that are suspended at an await.       *)
(* kind: the handler; pc: the await it is suspended at; dup: for a connect *)
(* handler, whether the session was Active when the frame arrived.         *)
Task(kind, pc, c, r) ==
  [kind |-> kind, pc |-> pc, client |-> c, room |-> r, dup |-> FALSE,
   doc |-> {}, version |-> 0, old |-> {}, at |-> 0]

HasFreeSlot == BagCardinality(tasks) < MaxTasks

Spawn(t) == tasks (+) SetToBag({t})

(* Task t resumes and suspends again as u. *)
Resume(t, u) == (tasks (-) SetToBag({t})) (+) SetToBag({u})

(* Task t resumes and runs to its end. *)
Finish(t) == tasks (-) SetToBag({t})

Running == BagToSet(tasks)


(* ------------------------------- Init ---------------------------------- *)
(* Room r2 is a returning room: it is in the store with KeepSnapshots      *)
(* snapshots; room r1 has never been used.                                 *)
OldSnapshots ==
  [i \in 1..KeepSnapshots |->
     [id |-> i, version |-> i, data |-> IF i = KeepSnapshots THEN {Base64Decode("AA==")} ELSE {}]]

Init ==
  /\ ws = [c \in Clients |-> "OPEN"]
  /\ connections = EmptyMap
  /\ roomClients = EmptyMap
  /\ documents = EmptyMap
  /\ saveTimers = {}
  /\ docGen = [r \in Rooms |-> 0]
  /\ dbRooms = [r \in {"r2"} |-> [lastActive |-> 0]]
  /\ dbParticipants = <<>>
  /\ dbSnapshots = [r \in Rooms |-> IF r = "r2" THEN OldSnapshots ELSE <<>>]
  /\ snapSeq = KeepSnapshots
  /\ tasks = EmptyBag
  /\ outbox = [c \in Clients |-> <<>>]
  /\ sent = [c \in Clients |-> <<>>]
  /\ events = 0
  /\ leaves = [c \in Clients |-> 0]
  /\ dropped = 0
  /\ accepted = [r \in Rooms |-> {}]
  /\ missed = [c \in Clients |-> 0]
  /\ sockets = <<>>
  /\ clientWs = 0
  /\ reconnectAttempts = 0
  /\ heartbeatInterval = 0
  /\ intervals = {}
  /\ timeouts = <<>>
  /\ wire = <<>>
  /\ disconnected = FALSE

(* ----------------------- inbound frames ------------------------------- *)
Attached(c) == c \in DOMAIN connections

(* The states of the session of socket c (spec 4.5).  Pending: it has     *)
(* never been in the registry (addConnection is followed by the creation   *)
(* of its participant row).  Active: in the registry, handshake finished.  *)
Handshaking(c) == \E t \in Running : t.kind = "connect" /\ t.client = c
Pending(c) ==
  /\ ~Attached(c)
  /\ \A i \in 1..Len(dbParticipants) : dbParticipants[i].clientId # c
  /\ \A t \in Running :
       ~(t.kind = "connect" /\ t.client = c /\ t.pc \in {"record", "loadsnap"})
Active(c) == Attached(c) /\ ws[c] = "OPEN" /\ ~Handshaking(c)

(* The history of a frame other than `connect` from c. *)
NoteDrop(c) == dropped' = IF Pending(c) THEN dropped + 1 ELSE dropped

(* The history of a data frame from c: recorded in sent[c] when c is in    *)
(* the registry.                                                           *)
Note(c, type, body) ==
  /\ sent' = IF Attached(c)
               THEN [sent EXCEPT ![c] = Append(@, Inbound(type, body))]
               ELSE sent
  /\ NoteDrop(c)

(* ws.on('message') with a `connect` frame: handleConnect runs up to its   *)
(* first await, prisma.room.findUnique.                                    *)
RecvConnect(c, r) ==
  /\ ws[c] = "OPEN"
  /\ HasFreeSlot
  /\ events' = events + 1
  /\ tasks' = Spawn([Task("connect", "find", c, r) EXCEPT !.dup = Active(c)])
  /\ UNCHANGED <<ws, registry, cache, store, outbox, sent, leaves, dropped, accepted>>
  /\ missed' = [missed EXCEPT ![c] = 0]
  /\ UNCHANGED browser

(* findUnique has resolved: the room is created when it is absent. *)
ConnectFind(t) ==
  /\ t \in Running /\ t.kind = "connect" /\ t.pc = "find"
  /\ tasks' = Resume(t, [t EXCEPT !.pc =
                 IF t.room \in DOMAIN dbRooms THEN "touch" ELSE "create"])
  /\ UNCHANGED <<ws, registry, cache, store, outbox, history>>
  /\ UNCHANGED <<missed, browser>>

(* prisma.room.create has resolved, or has failed on the primary key; the  *)
(* failure is caught in handleMessage, which reports INVALID_MESSAGE.      *)
ConnectCreate(t) ==
  /\ t \in Running /\ t.kind = "connect" /\ t.pc = "create"
  /\ IF t.room \in DOMAIN dbRooms
       THEN /\ tasks' = Finish(t)
            /\ outbox' = sendToClient(outbox, t.client, ErrorMessage("INVALID_MESSAGE"))
            /\ UNCHANGED dbRooms
       ELSE /\ tasks' = Resume(t, [t EXCEPT !.pc = "touch"])
            /\ dbRooms' = [x \in DOMAIN dbRooms \cup {t.room} |->
                             IF x = t.room THEN [lastActive |-> 0] ELSE dbRooms[x]]
            /\ UNCHANGED outbox
  /\ UNCHANGED <<ws, registry, cache, dbParticipants, dbSnapshots, snapSeq, history>>
  /\ UNCHANGED <<missed, browser>>

(* prisma.room.update({ lastActive }) has resolved; addConnection follows  *)
(* and roomParticipant.create is awaited.                                  *)
ConnectTouch(t) ==
  /\ t \in Running /\ t.kind = "connect" /\ t.pc = "touch"
  /\ dbRooms' = [dbRooms EXCEPT ![t.room].lastActive = @ + 1]
  /\ connections' = addConnection_connections(t.client, t.room)
  /\ roomClients' = addConnection_roomClients(t.client, t.room)
  /\ tasks' = Resume(t, [t EXCEPT !.pc = "record"])
  /\ UNCHANGED <<ws, cache, dbParticipants, dbSnapshots, snapSeq, outbox, history>>
  /\ UNCHANGED <<missed, browser>>

(* The tail of handleConnect: sync-response to the joiner, join to the room. *)
Welcome(ob, c, r, docs) ==
  broadcastToRoom(
    sendToClient(ob, c, SyncResponse(docs[r], getRoomParticipants(r))),
    r, JoinBroadcast(c, r), c)

(* roomParticipant.create has resolved; getOrCreateDocument returns the    *)
(* cached Document, or awaits the newest snapshot of the room.             *)
ConnectRecord(t) ==
  /\ t \in Running /\ t.kind = "connect" /\ t.pc = "record"
  /\ dbParticipants' = Append(dbParticipants,
       [roomId |-> t.room, clientId |-> t.client, open |-> TRUE, leftAt |-> 0])
  /\ IF t.room \in DOMAIN documents
       THEN /\ tasks' = Finish(t)
            /\ outbox' = Welcome(outbox, t.client, t.room, documents)
       ELSE /\ tasks' = Resume(t, [t EXCEPT !.pc = "loadsnap"])
            /\ UNCHANGED outbox
  /\ UNCHANGED <<ws, registry, cache, dbRooms, dbSnapshots, snapSeq, history>>
  /\ UNCHANGED <<missed, browser>>

(* roomSnapshot.findFirst has resolved inside getOrCreateDocument: the new *)
(* Document is seeded, installed in `documents` and given its save timer.  *)
ConnectLoad(t) ==
  /\ t \in Running /\ t.kind = "connect" /\ t.pc = "loadsnap"
  /\ \E seed \in IF dbSnapshots[t.room] = <<>> THEN {{}}
                 ELSE {dbSnapshots[t.room][i].data : i \in NewestRows(t.room)} :
       /\ documents' = [x \in DOMAIN documents \cup {t.room} |->
                          IF x = t.room THEN seed ELSE documents[x]]
       /\ outbox' = Welcome(outbox, t.client, t.room, documents')
  /\ docGen' = [docGen EXCEPT ![t.room] = @ + 1]
  /\ saveTimers' = setupSnapshotSaving(t.room, docGen'[t.room])
  /\ tasks' = Finish(t)
  /\ UNCHANGED <<ws, registry, store, history>>
  /\ UNCHANGED <<missed, browser>>

(* An `update` frame: handleUpdate has no await.  When Y.applyUpdate      *)
(* throws, the catch of handleMessage reports INVALID_MESSAGE and the      *)
(* broadcast is not reached.                                               *)
RecvUpdate(c, d) ==
  /\ ws[c] = "OPEN"
  /\ Note(c, "update", d)
  /\ IF getRoomId(c) = NoRoom
       THEN UNCHANGED <<documents, outbox>>
       ELSE IF Malformed(Base64Decode(d)) /\ getRoomId(c) \in DOMAIN documents
         THEN /\ outbox' = sendToClient(outbox, c, ErrorMessage("INVALID_MESSAGE"))
              /\ UNCHANGED documents
         ELSE /\ documents' = applyUpdate(getRoomId(c), Base64Decode(d))
              /\ outbox' = broadcastToRoom(outbox, getRoomId(c), UpdateBroadcast(c, d), c)
  /\ accepted' = IF Active(c) /\ ~Malformed(Base64Decode(d))
                   THEN [accepted EXCEPT ![getRoomId(c)] = @ \cup {Base64Decode(d)}]
                   ELSE accepted
  /\ events' = events + 1
  /\ UNCHANGED <<ws, registry, saveTimers, docGen, store, tasks, leaves>>
  /\ missed' = [missed EXCEPT ![c] = 0]
  /\ UNCHANGED browser

(* A `presence` frame. *)
RecvPresence(c, p) ==
  /\ ws[c] = "OPEN"
  /\ Note(c, "presence", p)
  /\ IF getRoomId(c) = NoRoom
       THEN UNCHANGED outbox
       ELSE outbox' = broadcastToRoom(outbox, getRoomId(c), PresenceBroadcast(c, p), c)
  /\ events' = events + 1
  /\ UNCHANGED <<ws, registry, cache, store, tasks, leaves, accepted>>
  /\ missed' = [missed EXCEPT ![c] = 0]
  /\ UNCHANGED browser

(* A `chat` frame: broadcast to the whole room, the sender included. *)
RecvChat(c, m) ==
  /\ ws[c] = "OPEN"
  /\ Note(c, "chat", m)
  /\ IF getRoomId(c) = NoRoom
       THEN UNCHANGED outbox
       ELSE outbox' = broadcastToRoom(outbox, getRoomId(c), ChatBroadcast(c, m), "")
  /\ events' = events + 1
  /\ UNCHANGED <<ws, registry, cache, store, tasks, leaves, accepted>>
  /\ missed' = [missed EXCEPT ![c] = 0]
  /\ UNCHANGED browser

(* A `heartbeat` frame is echoed to its sender. *)
RecvHeartbeat(c) ==
  /\ ws[c] = "OPEN"
  /\ Note(c, "heartbeat", "")
  /\ outbox' = sendToClient(outbox, c, HeartbeatEcho)
  /\ events' = events + 1
  /\ UNCHANGED <<ws, registry, cache, store, tasks, leaves, accepted>>
  /\ missed' = [missed EXCEPT ![c] = 0]
  /\ UNCHANGED browser

(* handleDisconnect up to its first await: removeConnection, and nothing   *)
(* more when the client was not in the registry.                           *)
handleDisconnect(c) ==
  IF Attached(c)
    THEN /\ HasFreeSlot
         /\ connections' = removeConnection_connections(c)
         /\ roomClients' = removeConnection_roomClients(c)
         /\ tasks' = Spawn([Task("disconnect", "leaverec", c, connections[c].roomId)
                               EXCEPT !.at = Now])
    ELSE UNCHANGED <<registry, tasks>>

(* A `leave` frame. *)
RecvLeave(c) ==
  /\ ws[c] = "OPEN"
  /\ leaves' = IF Active(c) THEN [leaves EXCEPT ![c] = @ + 1] ELSE leaves
  /\ NoteDrop(c)
  /\ handleDisconnect(c)
  /\ events' = events + 1
  /\ UNCHANGED <<ws, cache, store, outbox, sent, accepted>>
  /\ missed' = [missed EXCEPT ![c] = 0]
  /\ UNCHANGED browser

(* The socket closes: ws.on('close'). *)
SocketClose(c) ==
  /\ ws[c] = "OPEN"
  /\ ws' = [ws EXCEPT ![c] = "CLOSED"]
  /\ handleDisconnect(c)
  /\ events' = events + 1
  /\ UNCHANGED <<cache, store, outbox, sent, leaves, dropped, accepted>>
  /\ UNCHANGED <<missed, browser>>

(* roomParticipant.updateMany has resolved: leave is broadcast, and the    *)
(* room is saved when it has become empty (saveSnapshot up to findFirst).  *)
DisconnectRecord(t) ==
  /\ t \in Running /\ t.kind = "disconnect" /\ t.pc = "leaverec"
  /\ dbParticipants' = updateMany(dbParticipants, t.client, t.at)
  /\ outbox' = broadcastToRoom(outbox, t.room, LeaveBroadcast(t.client), "")
  /\ tasks' = IF isRoomEmpty(t.room) /\ t.room \in DOMAIN documents
                THEN Resume(t, [t EXCEPT !.pc = "savefind", !.doc = documents[t.room]])
                ELSE Finish(t)
  /\ UNCHANGED <<ws, registry, cache, dbRooms, dbSnapshots, snapSeq, history>>
  /\ UNCHANGED <<missed, browser>>

(* The interval timer of a room fires: saveSnapshot(roomId, doc) up to findFirst. *)
TimerTick(r) ==
  /\ TimersOf(r) # {}
  /\ HasFreeSlot
  /\ events' = events + 1
  /\ tasks' = Spawn([Task("timer", "savefind", "", r) EXCEPT !.doc = documents[r]])
  /\ UNCHANGED <<ws, registry, cache, store, outbox, sent, leaves, dropped, accepted>>
  /\ UNCHANGED <<missed, browser>>

(* saveSnapshot: findFirst has resolved, the version is chosen. *)
SaveFind(t) ==
  /\ t \in Running /\ t.pc = "savefind"
  /\ tasks' = Resume(t, [t EXCEPT !.pc = "savecreate", !.version =
       (IF dbSnapshots[t.room] = <<>> THEN 0 ELSE Max(Versions(t.room))) + 1])
  /\ UNCHANGED <<ws, registry, cache, store, outbox, history>>
  /\ UNCHANGED <<missed, browser>>

(* saveSnapshot: roomSnapshot.create has resolved. *)
SaveCreate(t) ==
  /\ t \in Running /\ t.pc = "savecreate"
  /\ snapSeq' = snapSeq + 1
  /\ dbSnapshots' = [dbSnapshots EXCEPT ![t.room] =
       Append(@, [id |-> snapSeq + 1, version |-> t.version, data |-> t.doc])]
  /\ tasks' = Resume(t, [t EXCEPT !.pc = "saveprune"])
  /\ UNCHANGED <<ws, registry, cache, dbRooms, dbParticipants, outbox, history>>
  /\ UNCHANGED <<missed, browser>>

(* The sets of row ids findMany({ orderBy: version desc, skip: 10 }) can   *)
(* return: all rows but KeepSnapshots of the highest versions.             *)
OldSnapshotIds(r) ==
  LET rows == {dbSnapshots[r][i] : i \in 1..Len(dbSnapshots[r])}
      n == Len(dbSnapshots[r])
  IN IF n <= KeepSnapshots THEN {{}}
     ELSE {{row.id : row \in S} : S \in
            {S \in SUBSET rows :
               /\ Cardinality(S) = n - KeepSnapshots
               /\ \A a \in S, b \in rows \ S : a.version <= b.version}}

(* saveSnapshot: findMany has resolved; deleteMany is awaited when it      *)
(* returned rows.                                                          *)
SavePrune(t) ==
  /\ t \in Running /\ t.pc = "saveprune"
  /\ \E old \in OldSnapshotIds(t.room) :
       tasks' = IF old = {} THEN Finish(t)
                ELSE Resume(t, [t EXCEPT !.pc = "savedelete", !.old = old])
  /\ UNCHANGED <<ws, registry, cache, store, outbox, history>>
  /\ UNCHANGED <<missed, browser>>

(* saveSnapshot: deleteMany has resolved. *)
SaveDelete(t) ==
  /\ t \in Running /\ t.pc = "savedelete"
  /\ dbSnapshots' = [dbSnapshots EXCEPT ![t.room] =
       SelectSeq(@, LAMBDA row : row.id \notin t.old)]
  /\ tasks' = Finish(t)
  /\ UNCHANGED <<ws, registry, cache, dbRooms, dbParticipants, snapSeq, outbox, history>>
  /\ UNCHANGED <<missed, browser>>

(* One step of a suspended handler. *)
Step ==
  \/ \E t \in Running : ConnectFind(t)
  \/ \E t \in Running : ConnectCreate(t)
  \/ \E t \in Running : ConnectTouch(t)
  \/ \E t \in Running : ConnectRecord(t)
  \/ \E t \in Running : ConnectLoad(t)
  \/ \E t \in Running : DisconnectRecord(t)
  \/ \E t \in Running : SaveFind(t)
  \/ \E t \in Running : SaveCreate(t)
  \/ \E t \in Running : SavePrune(t)
  \/ \E t \in Running : SaveDelete(t)

(* ------------------------------- Next ---------------------------------- *)
Presences == {"p1"}
Chats     == {"m1"}

Budget == events < MaxEvents

Next ==
  \/ \E c \in Clients, r \in Rooms : Budget /\ RecvConnect(c, r)
  \/ \E c \in Clients, d \in Deltas : Budget /\ RecvUpdate(c, d)
  \/ \E c \in Clients, p \in Presences : Budget /\ RecvPresence(c, p)
  \/ \E c \in Clients, m \in Chats : Budget /\ RecvChat(c, m)
  \/ \E c \in Clients : Budget /\ RecvHeartbeat(c)
  \/ \E c \in Clients : Budget /\ RecvLeave(c)
  \/ \E c \in Clients : Budget /\ SocketClose(c)
  \/ \E r \in Rooms : Budget /\ TimerTick(r)
  \/ Step

Spec == Init /\ [][Next]_vars

(* The runs in which sessions join, send updates and leave, and nothing    *)
(* else happens: longer than those of Spec, over fewer kinds of events.    *)
RejoinBudget == events < MaxRejoinEvents

NextRejoin ==
  \/ \E c \in Clients, r \in Rooms : RejoinBudget /\ RecvConnect(c, r)
  \/ \E c \in Clients, d \in Deltas : RejoinBudget /\ Attached(c) /\ RecvUpdate(c, d)
  \/ \E c \in Clients : RejoinBudget /\ Attached(c) /\ RecvLeave(c)
  \/ Step

SpecRejoin == Init /\ [][NextRejoin]_vars

(* ------------------------------ faults --------------------------------- *)
(* A frame whose type matches no case of the switch of handleMessage: the  *)
(* handler returns having done nothing.                                    *)
RecvUnknown(c) ==
  /\ ws[c] = "OPEN"
  /\ Note(c, "unknown", "")
  /\ events' = events + 1
  /\ UNCHANGED <<ws, registry, cache, store, tasks, outbox, leaves, accepted>>
  /\ missed' = [missed EXCEPT ![c] = 0]
  /\ UNCHANGED browser

(* The store operation that handshake t awaits rejects: the exception      *)
(* leaves handleConnect and the catch of handleMessage reports it.         *)
ConnectFails(t) ==
  /\ t \in Running /\ t.kind = "connect"
  /\ tasks' = Finish(t)
  /\ outbox' = sendToClient(outbox, t.client, ErrorMessage("INVALID_MESSAGE"))
  /\ UNCHANGED <<ws, registry, cache, store, history>>
  /\ UNCHANGED <<missed, browser>>

(* roomParticipant.updateMany rejects in handleDisconnect: the exception   *)
(* leaves the handler before the leave broadcast and the save.             *)
DisconnectFails(t) ==
  /\ t \in Running /\ t.kind = "disconnect" /\ t.pc = "leaverec"
  /\ tasks' = Finish(t)
  /\ outbox' = sendToClient(outbox, t.client, ErrorMessage("INVALID_MESSAGE"))
  /\ UNCHANGED <<ws, registry, cache, store, history>>
  /\ UNCHANGED <<missed, browser>>

(* SIGINT / SIGTERM: shutdown closes the HTTP server, disconnects the      *)
(* store client and exits the process; the sockets, the handlers in flight *)
(* and the memory of the process go with it.                               *)
Shutdown ==
  /\ ws' = [c \in Clients |-> "CLOSED"]
  /\ connections' = EmptyMap
  /\ roomClients' = EmptyMap
  /\ documents' = EmptyMap
  /\ saveTimers' = {}
  /\ docGen' = [r \in Rooms |-> 0]
  /\ tasks' = EmptyBag
  /\ events' = events + 1
  /\ UNCHANGED <<store, outbox, sent, leaves, dropped, accepted>>
  /\ UNCHANGED <<missed, browser>>

(* The runs with failing store operations, malformed and unknown frames,   *)
(* and a shutdown.                                                         *)
FaultBudget == events < MaxFaultEvents

NextFaults ==
  \/ \E c \in Clients, r \in Rooms : FaultBudget /\ RecvConnect(c, r)
  \/ \E c \in Clients, d \in Deltas \cup BadDeltas :
       FaultBudget /\ Attached(c) /\ RecvUpdate(c, d)
  \/ \E c \in Clients : FaultBudget /\ Attached(c) /\ RecvLeave(c)
  \/ \E c \in Clients : FaultBudget /\ Attached(c) /\ RecvUnknown(c)
  \/ \E t \in Running : ConnectFails(t)
  \/ \E t \in Running : DisconnectFails(t)
  \/ FaultBudget /\ Shutdown
  \/ Step

SpecFaults == Init /\ [][NextFaults]_vars

(* ---------------------------- ping timer ------------------------------- *)
(* The pingInterval of a connection fires: a ping goes out if the socket   *)
(* is open.  Nothing is recorded and nothing is closed; the interval is    *)
(* cleared when the socket closes.                                         *)
Ping(c) ==
  /\ ws[c] = "OPEN"
  /\ missed[c] < MaxMissed
  /\ missed' = [missed EXCEPT ![c] = @ + 1]
  /\ UNCHANGED <<ws, registry, cache, store, tasks, outbox, history, browser>>

(* The runs of sessions that connect, send heartbeats or fall silent, and  *)
(* close, with the ping timers of their sockets.                           *)
IdleBudget == events < MaxIdleEvents

NextIdle ==
  \/ \E c \in Clients, r \in Rooms : IdleBudget /\ RecvConnect(c, r)
  \/ \E c \in Clients : IdleBudget /\ RecvHeartbeat(c)
  \/ \E c \in Clients : IdleBudget /\ SocketClose(c)
  \/ \E c \in Clients : Ping(c)
  \/ Step

SpecIdle == Init /\ [][NextIdle]_vars

(* -------------------------- ScribbleWebSocket -------------------------- *)
(* The client of one room page: new ScribbleWebSocket(url, roomId, user),  *)
(* connect() once, send() while the page is shown, disconnect() when it is *)
(* left.  The server's state is not involved.                              *)
server == <<ws, registry, cache, store, tasks, outbox, history, missed>>

ConnectMessage == [type |-> "connect", roomId |-> "r1", user |-> "u1"]
Message(type)  == [type |-> type, roomId |-> "", user |-> ""]

(* send without the test of readyState. *)
CanSend_always(cur, socks) == cur # 0

(* this.ws?.readyState === WebSocket.OPEN *)
CanSend(cur, socks) == cur # 0 /\ socks[cur] = "OPEN"

(* send(message), with this.ws = cur *)
Send(cur, socks, w, message) ==
  IF CanSend(cur, socks) THEN [w EXCEPT ![cur] = Append(@, message)] ELSE w

(* A delay that grows by reconnectDelay with every attempt. *)
Delay_linear(n) == reconnectDelay * n

(* reconnectDelay * Math.pow(2, reconnectAttempts - 1) *)
Delay(n) == reconnectDelay * 2 ^ (n - 1)

(* The sockets that have opened. *)
Opened == {i \in 1..Len(sockets) : sockets[i] = "OPEN" \/ wire[i] # <<>>}

(* connect(): this.ws = new WebSocket(url) *)
Connect ==
  /\ sockets' = Append(sockets, "CONNECTING")
  /\ clientWs' = Len(sockets) + 1
  /\ wire' = Append(wire, <<>>)

(* The page calls connect(). *)
AppConnect ==
  /\ sockets = <<>> /\ ~disconnected
  /\ Connect
  /\ UNCHANGED <<reconnectAttempts, heartbeatInterval, intervals, timeouts,
                 disconnected, server>>

(* ws.onopen of socket i: the counter is reset, `connect` is sent and the  *)
(* heartbeat is started.                                                   *)
OnOpen(i) ==
  /\ sockets[i] = "CONNECTING"
  /\ Cardinality(Opened) < MaxOpens
  /\ sockets' = [sockets EXCEPT ![i] = "OPEN"]
  /\ reconnectAttempts' = 0
  /\ wire' = Send(clientWs, sockets', wire, ConnectMessage)
  /\ heartbeatInterval' = i
  /\ intervals' = intervals \cup {i}
  /\ UNCHANGED <<clientWs, timeouts, disconnected, server>>

(* ws.onclose of socket i, after a failed connection attempt, a close by   *)
(* the server or the network, or close(): stopHeartbeat, attemptReconnect. *)
OnClose(i) ==
  /\ sockets[i] \in {"CONNECTING", "OPEN", "CLOSING"}
  /\ sockets' = [sockets EXCEPT ![i] = "CLOSED"]
  /\ intervals' = intervals \ {heartbeatInterval}
  /\ heartbeatInterval' = 0
  /\ IF reconnectAttempts >= maxReconnectAttempts
       THEN UNCHANGED <<reconnectAttempts, timeouts>>
       ELSE /\ reconnectAttempts' = reconnectAttempts + 1
            /\ timeouts' = Append(timeouts, Delay(reconnectAttempts'))
  /\ UNCHANGED <<clientWs, wire, disconnected, server>>

(* The k-th pending reconnect timeout fires: connect(). *)
TimeoutFires(k) ==
  /\ Len(sockets) < MaxSockets
  /\ timeouts' = [j \in 1..(Len(timeouts) - 1) |->
                    IF j < k THEN timeouts[j] ELSE timeouts[j + 1]]
  /\ Connect
  /\ UNCHANGED <<reconnectAttempts, heartbeatInterval, intervals,
                 disconnected, server>>

(* The sockets on which the model lets no further frame be sent. *)
WireFull == clientWs # 0 /\ Len(wire[clientWs]) >= MaxWire

(* A heartbeat interval fires. *)
HeartbeatTick(id) ==
  /\ ~WireFull
  /\ wire' = Send(clientWs, sockets, wire, Message("heartbeat"))
  /\ UNCHANGED <<sockets, clientWs, reconnectAttempts, heartbeatInterval,
                 intervals, timeouts, disconnected, server>>

(* The page calls send(message). *)
AppSend(type) ==
  /\ sockets # <<>> /\ ~disconnected
  /\ ~WireFull
  /\ wire' = Send(clientWs, sockets, wire, Message(type))
  /\ UNCHANGED <<sockets, clientWs, reconnectAttempts, heartbeatInterval,
                 intervals, timeouts, disconnected, server>>

(* The page calls disconnect(): stopHeartbeat, this.ws.close(), this.ws =   *)
(* null.                                                                   *)
AppDisconnect ==
  /\ sockets # <<>> /\ ~disconnected
  /\ intervals' = intervals \ {heartbeatInterval}
  /\ heartbeatInterval' = 0
  /\ sockets' = IF clientWs # 0 /\ sockets[clientWs] \in {"CONNECTING", "OPEN"}
                  THEN [sockets EXCEPT ![clientWs] = "CLOSING"]
                  ELSE sockets
  /\ clientWs' = 0
  /\ disconnected' = TRUE
  /\ UNCHANGED <<reconnectAttempts, timeouts, wire, server>>

NextClient ==
  \/ AppConnect
  \/ \E i \in 1..Len(sockets) : OnOpen(i)
  \/ \E i \in 1..Len(sockets) : OnClose(i)
  \/ \E k \in 1..Len(timeouts) : TimeoutFires(k)
  \/ \E id \in intervals : HeartbeatTick(id)
  \/ AppSend("update")
  \/ AppDisconnect

SpecClient == Init /\ [][NextClient]_vars

(* ------------------------------ claims --------------------------------- *)
RelayTypes == {"update", "presence", "chat"}
PeerTypes  == RelayTypes \cup {"join", "leave"}

Last(q) == q[Len(q)]

(* Session s is attached to room r: the registry maps it to r and its      *)
(* socket is open.                                                         *)
AttachedTo(s, r) == Attached(s) /\ connections[s].roomId = r /\ ws[s] = "OPEN"

HasFrame(c, frame) == \E i \in 1..Len(outbox[c]) : outbox[c][i] = frame

Quiet(c) == \A t \in Running : t.client # c

(* C1: when an `update` arrives from a session x that is in room R, every  *)
(* other session attached to R is sent exactly one frame, the `update`     *)
(* with x's delta and from = x, and x is sent nothing.                     *)
C1_UpdateFanOut ==
  [][\A x \in Clients :
       (/\ Len(sent'[x]) = Len(sent[x]) + 1
        /\ Last(sent'[x]).type = "update")
       => /\ \A s \in Clients \ {x} :
               AttachedTo(s, connections[x].roomId)
               => outbox'[s] = Append(outbox[s],
                    [type |-> "update", from |-> x, body |-> Last(sent'[x]).body,
                     state |-> {}, participants |-> {}])
          /\ outbox'[x] = outbox[x]]_vars

(* C1 witness: a session has been sent the update of another session. *)
C1_Witness ==
  \E s \in Clients : \E i \in 1..Len(outbox[s]) :
    outbox[s][i].type = "update" /\ outbox[s][i].from # s

(* C2: the two indexes of the registry agree, a client is in the set of at *)
(* most one room, and no room keeps an empty set.                          *)
C2_IndexesAgree ==
  /\ \A c \in DOMAIN connections :
       /\ connections[c].roomId \in DOMAIN roomClients
       /\ c \in roomClients[connections[c].roomId]
  /\ \A r \in DOMAIN roomClients :
       /\ roomClients[r] # {}
       /\ \A c \in roomClients[r] :
            c \in DOMAIN connections /\ connections[c].roomId = r
  /\ \A r1, r2 \in DOMAIN roomClients :
       r1 # r2 => roomClients[r1] \cap roomClients[r2] = {}

(* C3: a session is sent its sync-response before any frame that a peer    *)
(* has caused (update, presence, chat, join, leave).                       *)
C3_SyncResponseFirst ==
  \A s \in Clients : \A i \in 1..Len(outbox[s]) :
    (outbox[s][i].type \in PeerTypes /\ outbox[s][i].from # s)
    => \E j \in 1..(i - 1) : outbox[s][j].type = "sync-response"

(* C4: an admitted peer is sent no `update` of x before it has been told   *)
(* of x, by the `join` of x or by a participant list that names x.         *)
C4_JoinBeforeUpdate ==
  \A p \in Clients : \A i \in 1..Len(outbox[p]) :
    (/\ outbox[p][i].type = "update"
     /\ outbox[p][i].from # p
     /\ \E k \in 1..(i - 1) : outbox[p][k].type = "sync-response")
    => \E j \in 1..(i - 1) :
         \/ outbox[p][j].type = "join" /\ outbox[p][j].from = outbox[p][i].from
         \/ /\ outbox[p][j].type = "sync-response"
            /\ outbox[p][i].from \in outbox[p][j].participants

RECURSIVE IsSubseq(_, _)
IsSubseq(a, b) ==
  IF a = <<>> THEN TRUE
  ELSE IF b = <<>> THEN FALSE
  ELSE IF Head(a) = Head(b) THEN IsSubseq(Tail(a), Tail(b))
  ELSE IsSubseq(a, Tail(b))

(* The relayed frames of sender x among the frames sent to r, in order. *)
ReceivedFrom(r, x) ==
  LET q == SelectSeq(outbox[r], LAMBDA f : f.type \in RelayTypes /\ f.from = x)
  IN [i \in 1..Len(q) |-> [type |-> q[i].type, body |-> q[i].body]]

SentData(x) == SelectSeq(sent[x], LAMBDA f : f.type \in RelayTypes)

(* C5: the update, presence and chat frames of one sender reach every      *)
(* recipient in the order in which the sender sent them: what a recipient  *)
(* has been sent from x is a subsequence of what x has sent.               *)
C5_FifoPerSender ==
  \A r, x \in Clients : IsSubseq(ReceivedFrom(r, x), SentData(x))

(* C5 witness: a session has been sent a presence and then an update of    *)
(* the same peer.                                                          *)
C5_Witness ==
  \E r, x \in Clients : \E i, j \in 1..Len(outbox[r]) :
    /\ r # x /\ i < j
    /\ outbox[r][i].type = "presence" /\ outbox[r][i].from = x
    /\ outbox[r][j].type = "update" /\ outbox[r][j].from = x

(* C6: once a peer has been sent the `leave` of x, it is sent no update,   *)
(* presence or chat of x any more.                                         *)
C6_LeaveIsLast ==
  \A p, x \in Clients : \A i, j \in 1..Len(outbox[p]) :
    ~(/\ p # x /\ i < j
      /\ outbox[p][i].type = "leave" /\ outbox[p][i].from = x
      /\ outbox[p][j].type \in RelayTypes /\ outbox[p][j].from = x)

(* C7: a `connect` that arrives while the session is Active is answered    *)
(* with the error ALREADY_CONNECTED and goes no further: its handler never *)
(* touches the room, the registry or the participant records.              *)
C7_SecondConnectRejected ==
  \A t \in Running :
    (t.kind = "connect" /\ t.dup)
    => /\ HasFrame(t.client, ErrorMessage("ALREADY_CONNECTED"))
       /\ t.pc \notin {"record", "loadsnap"}

(* C8: a frame other than `connect` from a Pending session is answered     *)
(* with the error NOT_CONNECTED and the socket is dropped.                 *)
C8_PendingFrameRejected ==
  [][dropped' = dropped + 1
       => \E c \in Clients :
            /\ Pending(c) /\ ws[c] = "OPEN"
            /\ outbox'[c] = Append(outbox[c], ErrorMessage("NOT_CONNECTED"))
            /\ ws'[c] = "CLOSED"]_vars

(* C9: the teardown of an admitted session has run once its socket has     *)
(* closed and its handlers have finished: the session is in neither index  *)
(* of the registry and its participant rows are closed.                    *)
C9_TeardownRuns ==
  \A c \in Clients :
    (ws[c] = "CLOSED" /\ Quiet(c))
    => /\ ~Attached(c)
       /\ \A r \in DOMAIN roomClients : c \notin roomClients[r]
       /\ \A i \in 1..Len(dbParticipants) :
            dbParticipants[i].clientId = c => ~dbParticipants[i].open

(* C10: once the `leave` of an Active session has been handled, the        *)
(* session is Closed: its socket is closed and it is not in the registry.  *)
C10_LeaveCloses ==
  \A c \in Clients :
    (leaves[c] > 0 /\ Quiet(c)) => (ws[c] = "CLOSED" /\ ~Attached(c))

(* --------------------------- claims: saves ----------------------------- *)
SavePcs == {"savefind", "savecreate", "saveprune", "savedelete"}

(* The saveSnapshot calls of room r that are suspended at an await. *)
SavesInFlight(r) == {t \in Running : t.pc \in SavePcs /\ t.room = r}

(* C11: the snapshots of a room carry strictly increasing versions, in the *)
(* order in which they were written: no two of them share a version.       *)
C11_VersionsIncrease ==
  \A r \in Rooms : \A i, j \in 1..Len(dbSnapshots[r]) :
    i < j => dbSnapshots[r][i].version < dbSnapshots[r][j].version

(* C12: when no save of room r is in flight, r keeps at most KeepSnapshots *)
(* snapshots and their versions are a contiguous tail of a strictly        *)
(* increasing sequence: distinct, with no gap below the newest.            *)
C12_RetainedTail ==
  \A r \in Rooms :
    (SavesInFlight(r) = {} /\ dbSnapshots[r] # <<>>)
    => /\ Len(dbSnapshots[r]) <= KeepSnapshots
       /\ Cardinality(Versions(r)) = Len(dbSnapshots[r])
       /\ Versions(r) =
            (Max(Versions(r)) - Len(dbSnapshots[r]) + 1)..Max(Versions(r))

(* C13: the Document of a room, once in the cache, stays the same Document: *)
(* no step replaces it by one that lacks an update it had absorbed.         *)
C13_DocumentKept ==
  [][\A r \in DOMAIN documents :
       r \in DOMAIN documents' /\ documents[r] \subseteq documents'[r]]_vars

(* ------------------------- claims: admission --------------------------- *)
(* The handshake t of client c runs to its end in this step. *)
HandshakeEnds(c, t) ==
  /\ t \in Running /\ t.kind = "connect" /\ t.client = c
  /\ t.pc \in {"record", "loadsnap"}
  /\ tasks' = Finish(t)

(* C14: the state carried by the sync-response of a joiner of room R holds  *)
(* every update that was received for R from an Active session before.     *)
C14_SyncCarriesAccepted ==
  [][\A c \in Clients : \A t \in Running :
       (/\ HandshakeEnds(c, t)
        /\ Len(outbox'[c]) = Len(outbox[c]) + 1
        /\ Last(outbox'[c]).type = "sync-response")
       => accepted[t.room] \subseteq Last(outbox'[c]).state]_vars

(* Some session has left room r. *)
HasLeft(r) ==
  \E i \in 1..Len(dbParticipants) :
    dbParticipants[i].roomId = r /\ ~dbParticipants[i].open

FirstAdmission(c, t) ==
  /\ HandshakeEnds(c, t)
  /\ AttachedTo(c, t.room)
  /\ Cardinality({i \in 1..Len(dbParticipants') : dbParticipants'[i].clientId = c}) = 1
  /\ \A u \in Running :
       (u.kind = "connect" /\ u.client = c /\ u.pc \in {"record", "loadsnap"})
       => (u = t /\ CopiesIn(t, tasks) = 1)

(* C16: the handshake that admits c to room R sends c one sync-response,   *)
(* whose participants are exactly the sessions attached to R, c included,  *)
(* and sends the join of c once to every other session attached to R and   *)
(* to nobody else.                                                         *)
C16_ConnectAdmits ==
  [][\A c \in Clients : \A t \in Running :
       FirstAdmission(c, t)
       => /\ outbox'[c] = Append(outbox[c],
               SyncResponse(documents'[t.room],
                            {s \in Clients : AttachedTo(s, t.room)}))
          /\ \A s \in Clients \ {c} :
               outbox'[s] = IF AttachedTo(s, t.room)
                              THEN Append(outbox[s], JoinBroadcast(c, t.room))
                              ELSE outbox[s]]_vars

(* C17: a handshake that found its room missing goes on to admit the       *)
(* session: it never ends at the creation of the room.                     *)
C17_CreateAdmits ==
  [][\A t \in Running :
       (t.kind = "connect" /\ t.pc = "create") => tasks' # Finish(t)]_vars

(* The rooms whose Document has a destroy scheduled: handleDisconnect      *)
(* schedules none.                                                         *)
destroyScheduled == {}

(* C18: with every handler finished, a room without attached sessions has *)
(* a destroy scheduled or no Document in the cache.                        *)
C18_DestroyWhenEmpty ==
  \A r \in Rooms :
    (isRoomEmpty(r) /\ tasks = EmptyBag)
    => (r \in destroyScheduled \/ r \notin DOMAIN documents)

(* C19: while no update has ever been received, no Document is dirty and   *)
(* no save writes a snapshot.                                              *)
C19_SaveOnlyIfDirty ==
  [][(\A c \in Clients : \A i \in 1..Len(sent[c]) : sent[c][i].type # "update")
       => snapSeq' = snapSeq]_vars

(* C20: at most one save of a room is in flight at any time. *)
C20_OneSaveAtATime ==
  \A r \in Rooms :
    /\ Cardinality(SavesInFlight(r)) <= 1
    /\ \A t \in SavesInFlight(r) : CopiesIn(t, tasks) = 1

(* ---------------------- claims: participant records -------------------- *)
(* The participant rows of client c whose leftAt is null. *)
OpenRows(c) ==
  {i \in 1..Len(dbParticipants) :
     dbParticipants[i].clientId = c /\ dbParticipants[i].open}

(* C21: with every handler finished, leftAt is null exactly for the live   *)
(* sessions: the client of every open row is in the registry, and every    *)
(* client in the registry has exactly one open row.                        *)
C21_OpenRowsAreLive ==
  tasks = EmptyBag
  => /\ \A c \in Clients : OpenRows(c) # {} => c \in DOMAIN connections
     /\ \A c \in DOMAIN connections : Cardinality(OpenRows(c)) = 1

(* ---------------------------- claims: faults --------------------------- *)
(* The Document of room r holds an update that the newest snapshot of r    *)
(* lacks.                                                                  *)
Dirty(r) ==
  /\ r \in DOMAIN documents
  /\ \E u \in documents[r] :
       \/ dbSnapshots[r] = <<>>
       \/ \E i \in NewestRows(r) : u \notin dbSnapshots[r][i].data

(* C22: a shutdown with live sessions and a dirty Document leaves every    *)
(* dirty room with a new snapshot of the next version that holds its       *)
(* Document, every participant row closed and every socket closed.         *)
C22_ShutdownFlushes ==
  [][(/\ Shutdown
      /\ connections # EmptyMap
      /\ \E r \in Rooms : Dirty(r))
     => /\ \A r \in Rooms : Dirty(r) =>
             /\ dbSnapshots'[r] # <<>>
             /\ Last(dbSnapshots'[r]).data = documents[r]
             /\ Last(dbSnapshots'[r]).version =
                  (IF dbSnapshots[r] = <<>> THEN 0 ELSE Max(Versions(r))) + 1
        /\ \A i \in 1..Len(dbParticipants') : ~dbParticipants'[i].open
        /\ \A c \in Clients : ws'[c] = "CLOSED"]_vars

(* C23: a session whose socket is open holds at most OutboundQueue frames  *)
(* that it has not read.  outbox[c] is what ws.send has been given for c:  *)
(* a receiver that reads nothing holds all of it.                          *)
C23_OutboundBounded ==
  \A c \in Clients : ws[c] = "OPEN" => Len(outbox[c]) <= OutboundQueue

(* Client x has just sent a data frame of the given type (it is the newest *)
(* entry of sent[x]).                                                      *)
JustSent(x, type) ==
  /\ Len(sent'[x]) = Len(sent[x]) + 1
  /\ Last(sent'[x]).type = type

(* C25: a frame of unknown type from an attached session is answered with  *)
(* one INVALID_MESSAGE error to its sender and nothing to anybody else,    *)
(* and the session stays attached with its socket open.                    *)
C25_UnknownTypeRejected ==
  [][\A c \in Clients :
       JustSent(c, "unknown")
       => /\ outbox'[c] = Append(outbox[c], ErrorMessage("INVALID_MESSAGE"))
          /\ \A s \in Clients \ {c} : outbox'[s] = outbox[s]
          /\ UNCHANGED <<ws, registry>>]_vars

(* C26: an update that the Document rejects is not relayed, its sender is  *)
(* detached from the registry, and every other session stays as it was.    *)
C26_BadUpdateClosesSender ==
  [][\A x \in Clients :
       (/\ JustSent(x, "update")
        /\ Malformed(Base64Decode(Last(sent'[x]).body))
        /\ getRoomId(x) \in DOMAIN documents)
       => /\ x \notin DOMAIN connections'
          /\ \A s \in Clients \ {x} :
               /\ ws'[s] = ws[s]
               /\ s \in DOMAIN connections => s \in DOMAIN connections'
               /\ ~(/\ Len(outbox'[s]) > Len(outbox[s])
                    /\ Last(outbox'[s]).type = "update")]_vars

(* Handshake t is the only handshake of its client in flight. *)
OnlyHandshake(t) ==
  /\ CopiesIn(t, tasks) = 1
  /\ \A u \in Running : (u.kind = "connect" /\ u.client = t.client) => u = t

(* C27: when the lookup or creation of the room, or the participant        *)
(* record, fails during the handshake of a session, the session is sent an *)
(* error frame and is not in the registry afterwards.                      *)
C27_HandshakeFailureIsFatal ==
  [][\A t \in Running :
       (/\ ConnectFails(t)
        /\ t.pc \in {"find", "create", "record"}
        /\ OnlyHandshake(t) /\ ~t.dup /\ ws[t.client] = "OPEN")
       => /\ Len(outbox'[t.client]) = Len(outbox[t.client]) + 1
          /\ Last(outbox'[t.client]).type = "error"
          /\ t.client \notin DOMAIN connections']_vars

(* C28: a failure of room.update does not end the handshake, and a failure *)
(* of the leave record does not keep the leave from the peers nor the save *)
(* from an emptied room.                                                   *)
C28_SoftFailuresRetried ==
  [][\A t \in Running :
       /\ (t.kind = "connect" /\ t.pc = "touch") => tasks' # Finish(t)
       /\ (t.kind = "disconnect" /\ t.pc = "leaverec" /\ t \notin BagToSet(tasks'))
          => /\ \A s \in Clients :
                  AttachedTo(s, t.room)
                  => outbox'[s] = Append(outbox[s], LeaveBroadcast(t.client))
             /\ (isRoomEmpty(t.room) /\ t.room \in DOMAIN documents)
                => SavesInFlight(t.room)' # {}]_vars

(* C29: a chat from an Active session x goes exactly once to every session *)
(* attached to x's room, x included, with x's text unchanged and x's id as *)
(* clientId; the Document and the store are left alone.                    *)
C29_ChatToAll ==
  [][\A x \in Clients :
       (JustSent(x, "chat") /\ Active(x))
       => /\ \A s \in Clients :
               AttachedTo(s, getRoomId(x))
               => outbox'[s] = Append(outbox[s],
                    [type |-> "chat", from |-> x, body |-> Last(sent'[x]).body,
                     state |-> {}, participants |-> {}])
          /\ UNCHANGED <<documents, store>>]_vars

C29_Witness ==
  \E x \in Clients : \E s \in Clients \ {x} : \E m \in Chats :
    /\ HasFrame(x, [type |-> "chat", from |-> x, body |-> m,
                    state |-> {}, participants |-> {}])
    /\ HasFrame(s, [type |-> "chat", from |-> x, body |-> m,
                    state |-> {}, participants |-> {}])

(* C30: a presence from an Active session x goes to every other session    *)
(* attached to x's room and not to x, with clientId the id the server gave *)
(* x; the Document, the registry and the store are left alone.             *)
C30_PresenceToOthers ==
  [][\A x \in Clients :
       (JustSent(x, "presence") /\ Active(x))
       => /\ \A s \in Clients \ {x} :
               AttachedTo(s, getRoomId(x))
               => outbox'[s] = Append(outbox[s],
                    [type |-> "presence", from |-> x, body |-> Last(sent'[x]).body,
                     state |-> {}, participants |-> {}])
          /\ outbox'[x] = outbox[x]
          /\ UNCHANGED <<documents, registry, store>>]_vars

C30_Witness ==
  \E x \in Clients : \E s \in Clients \ {x} :
    /\ \E i \in 1..Len(outbox[s]) :
         outbox[s][i].type = "presence" /\ outbox[s][i].from = x
    /\ x # SuppliedClientId(Last(sent[x]).body)
    /\ \A i \in 1..Len(outbox[x]) : outbox[x][i].type # "presence"

(* --------------------------- claims: race ------------------------------ *)
(* C31: a disconnect of a client that is not in the registry changes       *)
(* neither index and records no leave, and a record_leave of a client with *)
(* no open row leaves every participant row as it was, leftAt included.    *)
C31_DetachIdempotent ==
  [][/\ \A c \in Clients :
          ((RecvLeave(c) \/ SocketClose(c)) /\ ~Attached(c))
          => UNCHANGED <<connections, roomClients, tasks, dbParticipants>>
     /\ \A t \in Running :
          (DisconnectRecord(t) /\ OpenRows(t.client) = {})
          => dbParticipants' = dbParticipants]_vars

(* C31 witness: a leave record is in flight for a client whose row an     *)
(* earlier leave record has closed.                                        *)
C31_Witness ==
  \E t \in Running :
    /\ t.kind = "disconnect" /\ t.pc = "leaverec"
    /\ OpenRows(t.client) = {}
    /\ \E i \in 1..Len(dbParticipants) :
         /\ dbParticipants[i].clientId = t.client
         /\ dbParticipants[i].leftAt > 0
         /\ dbParticipants[i].leftAt < t.at

(* Session s is handed a frame in this step. *)
Delivered(s) == Len(outbox'[s]) > Len(outbox[s])

(* C36: a frame broadcast for room R (update, presence, chat, join, leave) *)
(* is handed only to sessions whose room in the registry is R.             *)
C36_RoomsIsolated ==
  [][/\ \A x \in Clients : \A type \in {"update", "presence", "chat"} :
          (JustSent(x, type) /\ Attached(x))
          => \A s \in Clients : Delivered(s) => getRoomId(s) = getRoomId(x)
     /\ \A t \in Running :
          (ConnectRecord(t) \/ ConnectLoad(t) \/ DisconnectRecord(t))
          => \A s \in Clients \ {t.client} :
               Delivered(s) => getRoomId(s) = t.room]_vars

(* C37: an update is relayed to a peer only if the Document of the room    *)
(* has absorbed it.                                                        *)
C37_RelayedOnlyIfApplied ==
  [][\A x \in Clients :
       (/\ JustSent(x, "update") /\ Attached(x)
        /\ \E s \in Clients \ {x} : Delivered(s))
       => /\ getRoomId(x) \in DOMAIN documents'
          /\ Base64Decode(Last(sent'[x]).body) \in documents'[getRoomId(x)]]_vars

(* C38: once a socket has closed and no handler is in flight, its client   *)
(* is in neither index of the registry, is no participant of any room and  *)
(* has no open participant row.                                            *)
C38_NoGhostAfterClose ==
  tasks = EmptyBag
  => \A c \in Clients :
       ws[c] = "CLOSED"
       => /\ c \notin DOMAIN connections
          /\ \A r \in Rooms : c \notin getRoomParticipants(r)
          /\ \A r \in DOMAIN roomClients : c \notin roomClients[r]
          /\ OpenRows(c) = {}

(* C40: a heartbeat from an Active session is answered with one heartbeat  *)
(* frame to that session and nothing to anybody else, and changes neither  *)
(* the registry, the Documents nor the store; a heartbeat from a session   *)
(* that is not attached is answered with no frame at all.                  *)
C40_HeartbeatEcho ==
  [][\A c \in Clients :
       RecvHeartbeat(c)
       => /\ Active(c)
             => /\ outbox'[c] = Append(outbox[c],
                     [type |-> "heartbeat", from |-> "", body |-> "",
                      state |-> {}, participants |-> {}])
                /\ \A s \in Clients \ {c} : outbox'[s] = outbox[s]
                /\ UNCHANGED <<registry, documents, store>>
          /\ ~Attached(c) => outbox' = outbox]_vars

(* C40 witness: an attached session holds the echo of its heartbeat while  *)
(* a heartbeat of a session that was not attached has been received.       *)
C40_Witness ==
  \E c \in Clients :
    /\ dropped > 0
    /\ \E i \in 1..Len(sent[c]) : sent[c][i].type = "heartbeat"
    /\ \E i \in 1..Len(outbox[c]) : outbox[c][i].type = "heartbeat"

(* C39: at most one interval timer runs for a room, and it saves the       *)
(* Document that is installed for the room.                                *)
C39_OneTimerPerRoom ==
  /\ \A r \in Rooms : Cardinality(TimersOf(r)) <= 1
  /\ \A h \in saveTimers :
       h.room \in DOMAIN documents /\ h.doc = docGen[h.room]

(* C39 witness: the Document of a room has been installed a second time,   *)
(* by an overlapping or a later acquire, and a timer runs for the room.    *)
C39_Witness ==
  \E r \in Rooms : docGen[r] >= 2 /\ TimersOf(r) # {}

(* --------------------------- claims: timers ---------------------------- *)
(* C32: a session from which no frame has arrived for 90 s is closed.      *)
(* After k firings of its pingInterval with no frame in between, a session *)
(* has been silent for more than (k - 1) intervals.                        *)
C32_IdleClosed ==
  \A c \in Clients :
    (missed[c] - 1) * pingIntervalMs >= 90000 => ws[c] # "OPEN"

(* -------------------------- claims: client ----------------------------- *)
(* C33: the first frame sent on any socket is `connect` with the roomId    *)
(* and user of the client, a socket that is open has been sent it, and the *)
(* close of an open socket schedules a reconnect.                          *)
C33_ConnectReplayed ==
  [][/\ \A i \in 1..Len(sockets') :
          /\ wire'[i] # <<>>
             => wire'[i][1] = [type |-> "connect", roomId |-> "r1", user |-> "u1"]
          /\ sockets'[i] = "OPEN" => wire'[i] # <<>>
     /\ \A i \in 1..Len(sockets) :
          (sockets[i] = "OPEN" /\ sockets'[i] = "CLOSED")
          => Len(timeouts') = Len(timeouts) + 1]_vars

(* C33 witness: the client has reconnected and sent `connect` on both its  *)
(* first socket and a later one.                                           *)
C33_Witness ==
  \E i \in 1..Len(sockets) :
    i > 1 /\ wire[1] # <<>> /\ wire[i] # <<>> /\ wire[i][1].type = "connect"

(* C34: reconnectAttempts never exceeds 10; the n-th attempt in a row is   *)
(* scheduled with a delay of 1000 * 2^(n-1) ms; an open resets the counter *)
(* to 0; a socket is created only by the page's connect or by a scheduled  *)
(* attempt, and after the 10th failed attempt none is scheduled.           *)
C34_ReconnectBounded ==
  [][/\ reconnectAttempts' <= 10
     /\ Len(timeouts') > Len(timeouts)
        => /\ reconnectAttempts' = reconnectAttempts + 1
           /\ timeouts'[Len(timeouts')] = 1000 * 2 ^ (reconnectAttempts' - 1)
     /\ \A i \in 1..Len(sockets) :
          (sockets[i] = "CONNECTING" /\ sockets'[i] = "OPEN")
          => reconnectAttempts' = 0
     /\ Len(sockets') > Len(sockets)
        => sockets = <<>> \/ Len(timeouts') = Len(timeouts) - 1
     /\ \A i \in 1..Len(sockets) :
          (OnClose(i) /\ reconnectAttempts = 10) => timeouts' = timeouts]_vars

(* C34 witness: ten attempts in a row have failed and nothing is pending.  *)
C34_Witness ==
  /\ reconnectAttempts = 10
  /\ timeouts = <<>>
  /\ Len(sockets) = 11
  /\ \A i \in 1..Len(sockets) : sockets[i] = "CLOSED"

(* C35: once disconnect() has been called no reconnect is scheduled, no    *)
(* socket is created and no frame is sent.                                 *)
C35_StaysDisconnected ==
  [][disconnected
       => /\ Len(timeouts') <= Len(timeouts)
          /\ Len(sockets') = Len(sockets)
          /\ wire' = wire]_vars

====
